---- MODULE Spec2Model ----
(***************************************************************************)
(* Sales dashboard (src/client/script.js): one startup fetch, filter       *)
(* set-up, and the filter -> metrics -> chart -> table render pass that    *)
(* every filter control re-runs.                                           *)
(*                                                                         *)
(* Time is counted in hours since 2024-01-01T00:00Z.  A Date built from an *)
(* ISO date string is UTC midnight of that day; a Date the date picker     *)
(* hands out is local midnight of the picked day, tz hours east of UTC.    *)
(***************************************************************************)
EXTENDS Integers, Sequences, FiniteSets, TLC

VARIABLES
    tz,               \* environment: the browser's offset from UTC, in hours east
    dom,              \* environment: what the page lacks ("ok" when nothing)
    phase,            \* "loading", "ready", "nodata", "failed"
    fetchOutcome,     \* "pending", "ok", "transport", "parse"
    data,             \* the fetched collection the handlers close over
    appMessage,       \* innerHTML written to #app ("" while untouched)
    uncaught,         \* TRUE once an exception left a handler uncaught
    handlers,         \* the change handlers registered so far
    options,          \* #category-filter's options
    selectedCategory, \* #category-filter's value
    startDate,        \* #start-date's selectedDates[0]
    endDate,          \* #end-date's selectedDates[0]
    chartType,        \* #chart-type-selector's value
    chartInstance,    \* the global chart handle (script.js line 1)
    liveCharts,       \* Chart objects constructed and not yet destroyed
    peakLive,         \* most Chart objects alive at once during the last drawChart
    canvas,           \* what the chart canvas shows
    metrics,          \* the four metric slots
    tableRows,        \* the rows of the data table
    calls             \* the calls the last filterAndRenderData made, in order

vars == <<tz, dom, phase, fetchOutcome, data, appMessage, uncaught, handlers,
          options, selectedCategory, startDate, endDate, chartType,
          chartInstance, liveCharts, peakLive, canvas, metrics, tableRows,
          calls>>

-----------------------------------------------------------------------------
(* Bounds and input sets *)

MaxRecords == 2
MaxDestroyCalls == 2
MaxOrders == 12
MaxPopulate == 2

TopN == 10

Undefined == "<undefined>"

TimeZones == {-5, 0, 2}
Dates == {<<2, 1, 2024>>, <<1, 2, 2024>>}
Categories == {"A", "B", Undefined}
Totals == {<<3, 0>>, <<7, 0>>}
ChartTypes == {"revenueOverTime", "revenueByCategory", "topProducts"}
SelectorValues == ChartTypes \cup {"pie"}
DomFaults == {"ok", "noFlatpickr", "noSelector"}

ProductOf(c) == IF c = "A" THEN "P" ELSE IF c = "B" THEN "Q" ELSE Undefined
TotalOn(d) == IF d[2] = 1 THEN <<3, 0>> ELSE <<7, 0>>

\* order_id and customer_id only pass through to the table and are left out
Pool ==
    { [order_date |-> d, product_names |-> ProductOf(c), categories |-> c,
       total |-> TotalOn(d)] : d \in Dates, c \in Categories }

Collections == UNION { [1..n -> Pool] : n \in 1..MaxRecords }

-----------------------------------------------------------------------------
(* Values of the language and the widgets *)

Falsy(v) == v \in {Undefined, ""}

RECURSIVE parseFloat(_)
parseFloat(s) ==
    IF s = <<>> THEN 0
    ELSE 10 * parseFloat(SubSeq(s, 1, Len(s) - 1)) + s[Len(s)]

MonthLengths == <<31, 29, 31, 30, 31, 30, 31, 31, 30, 31, 30, 31>>

RECURSIVE DaysBeforeMonth(_)
DaysBeforeMonth(m) ==
    IF m = 1 THEN 0 ELSE DaysBeforeMonth(m - 1) + MonthLengths[m - 1]

\* item.order_date.split('/').reverse().join('-')
ReverseJoin(order_date) == <<order_date[3], order_date[2], order_date[1]>>

\* new Date("YYYY-MM-DD"): UTC midnight of that day
DateFromISO(iso) ==
    (366 * (iso[1] - 2024) + DaysBeforeMonth(iso[2]) + (iso[3] - 1)) * 24

ItemDate(item) == DateFromISO(ReverseJoin(item.order_date))

\* date.toISOString().slice(0, 10): the UTC calendar day of an instant
ToISODate(t) ==
    LET day == t \div 24
        y == 2024 + (day \div 366)
        doy == day % 366
        m == CHOOSE k \in 1..12 :
                 /\ DaysBeforeMonth(k) <= doy
                 /\ doy < DaysBeforeMonth(k) + MonthLengths[k]
    IN <<y, m, doy - DaysBeforeMonth(m) + 1>>

\* the picker's Date for a "Y-m-d" day: local midnight
PickerDate(iso) == DateFromISO(iso) - tz

\* the calendar day the picker shows for one of its Dates
PickerDay(t) == (t + tz) \div 24

CalendarDay(order_date) == DateFromISO(ReverseJoin(order_date)) \div 24

RECURSIVE SeqMin(_)
SeqMin(s) ==
    IF Len(s) = 1 THEN s[1]
    ELSE LET m == SeqMin(SubSeq(s, 1, Len(s) - 1))
         IN IF s[Len(s)] < m THEN s[Len(s)] ELSE m

RECURSIVE SeqMax(_)
SeqMax(s) ==
    IF Len(s) = 1 THEN s[1]
    ELSE LET m == SeqMax(SubSeq(s, 1, Len(s) - 1))
         IN IF s[Len(s)] > m THEN s[Len(s)] ELSE m

\* [...new Set(seq)]: the distinct values in first-seen order
RECURSIVE Unique(_)
Unique(s) ==
    IF s = <<>> THEN <<>>
    ELSE LET u == Unique(SubSeq(s, 1, Len(s) - 1))
         IN IF \E i \in 1..Len(u) : u[i] = s[Len(s)] THEN u
            ELSE Append(u, s[Len(s)])

\* acc[key] = (acc[key] || 0) + amount on an object whose keys keep insertion order
ObjAdd(acc, key, amount) ==
    IF \E i \in 1..Len(acc) : acc[i].key = key
    THEN [i \in 1..Len(acc) |->
             IF acc[i].key = key
             THEN [key |-> key, value |-> acc[i].value + amount]
             ELSE acc[i]]
    ELSE Append(acc, [key |-> key, value |-> amount])

RECURSIVE SumTotals(_)
SumTotals(d) ==
    IF d = <<>> THEN 0
    ELSE SumTotals(SubSeq(d, 1, Len(d) - 1)) + parseFloat(d[Len(d)].total)

-----------------------------------------------------------------------------
(* updateKeyMetrics, lines 100-123 *)

RECURSIVE MetricsRevenueByCategory(_)
MetricsRevenueByCategory(d) ==
    IF d = <<>> THEN <<>>
    ELSE ObjAdd(MetricsRevenueByCategory(SubSeq(d, 1, Len(d) - 1)),
                IF Falsy(d[Len(d)].categories) THEN "Uncategorized"
                ELSE d[Len(d)].categories,
                parseFloat(d[Len(d)].total))

HasKey(obj, k) == \E i \in 1..Len(obj) : obj[i].key = k
Get(obj, k) == obj[CHOOSE i \in 1..Len(obj) : obj[i].key = k].value

\* the comparison with >= in place of >: a tie would keep the earlier key
KeepsEarlierOnTie(obj, a, b) == HasKey(obj, a) /\ Get(obj, a) >= Get(obj, b)

\* revenueByCategory[a] > revenueByCategory[b]; an absent key reads undefined,
\* and undefined > x is false
KeepsAccumulator(obj, a, b) == HasKey(obj, a) /\ Get(obj, a) > Get(obj, b)

\* Object.keys(obj).reduce((a, b) => ..., a0), from key i on
RECURSIVE ReduceTopCategory(_, _, _)
ReduceTopCategory(obj, i, a) ==
    IF i > Len(obj) THEN a
    ELSE ReduceTopCategory(obj, i + 1,
             IF KeepsAccumulator(obj, a, obj[i].key) THEN a ELSE obj[i].key)

\* x.toFixed(2) of a quotient, in cents
RoundedCents(num, den) == (200 * num + den) \div (2 * den)

\* lines 119-122 for the values of lines 101-116
MetricSlots(totalRevenue, totalOrders, topCategory) ==
    [total_revenue |-> 100 * totalRevenue,
     total_orders |-> totalOrders,
     average_order_value |->
         IF totalOrders > 0 THEN RoundedCents(totalRevenue, totalOrders) ELSE 0,
     top_category |-> IF Falsy(topCategory) THEN "None" ELSE topCategory]

updateKeyMetrics(d) ==
    MetricSlots(SumTotals(d), Len(d),
                ReduceTopCategory(MetricsRevenueByCategory(d), 1, "None"))

-----------------------------------------------------------------------------
(* drawChart, lines 126-221 *)

NoChart == [exists |-> FALSE, destroyCalls |-> 0]
NewChart == [exists |-> TRUE, destroyCalls |-> 0]
Blank == [type |-> "none", labels |-> <<>>, data |-> <<>>]

IsLive(inst) == inst.exists /\ inst.destroyCalls = 0

\* case 'revenueOverTime'
RevenueOverTime(d) ==
    [type |-> "line",
     labels |-> [i \in 1..Len(d) |-> d[i].order_date],
     data |-> [i \in 1..Len(d) |-> parseFloat(d[i].total)]]

\* case 'revenueByCategory': lines 160-167 for the categories of line 159
CategoryRevenues(d, categories) ==
    [i \in 1..Len(categories) |->
        [category |-> categories[i],
         revenue |-> SumTotals(SelectSeq(d,
                         LAMBDA item : item.categories = categories[i]))]]

ChartRevenueByCategory(d) ==
    CategoryRevenues(d, Unique([i \in 1..Len(d) |-> d[i].categories]))

\* lines 168-185
CategoryBars(revenueByCategory) ==
    [type |-> "bar",
     labels |-> [i \in 1..Len(revenueByCategory) |-> revenueByCategory[i].category],
     data |-> [i \in 1..Len(revenueByCategory) |-> revenueByCategory[i].revenue]]

RevenueByCategory(d) == CategoryBars(ChartRevenueByCategory(d))

\* case 'topProducts'
RECURSIVE ProductRevenue(_)
ProductRevenue(d) ==
    IF d = <<>> THEN <<>>
    ELSE ObjAdd(ProductRevenue(SubSeq(d, 1, Len(d) - 1)),
                IF Falsy(d[Len(d)].product_names) THEN "Unknown Product"
                ELSE d[Len(d)].product_names,
                parseFloat(d[Len(d)].total))

\* where an entry goes in a list already sorted by (a, b) => b[1] - a[1]: the
\* sort is stable, so it goes after every entry that is not smaller
InsertAt(sorted, e, k) ==
    SubSeq(sorted, 1, k) \o <<e>> \o SubSeq(sorted, k + 1, Len(sorted))

InsertSorted(sorted, e) ==
    InsertAt(sorted, e,
             Cardinality({i \in 1..Len(sorted) : sorted[i].value >= e.value}))

RECURSIVE SortDescending(_)
SortDescending(entries) ==
    IF entries = <<>> THEN <<>>
    ELSE InsertSorted(SortDescending(SubSeq(entries, 1, Len(entries) - 1)),
                      entries[Len(entries)])

\* entries.slice(0, n) with the end left out: every entry is kept
SliceAll(entries, n) == entries

\* entries.slice(0, n)
Slice(entries, n) == SubSeq(entries, 1, IF Len(entries) < n THEN Len(entries) ELSE n)

TopProductsList(d) == Slice(SortDescending(ProductRevenue(d)), TopN)

\* lines 200-218
ProductBars(topProducts) ==
    [type |-> "bar",
     labels |-> [i \in 1..Len(topProducts) |-> topProducts[i].key],
     data |-> [i \in 1..Len(topProducts) |-> topProducts[i].value]]

TopProducts(d) == ProductBars(TopProductsList(d))

\* lines 134-220: what the constructed chart shows
ChartConfig(d, ct) ==
    CASE ct = "revenueOverTime" -> RevenueOverTime(d)
      [] ct = "revenueByCategory" -> RevenueByCategory(d)
      [] ct = "topProducts" -> TopProducts(d)

\* lines 130-132 left out: the previous chart stays as it is
KeepPrevious(h) == h

\* lines 130-132; destroying a chart again releases nothing more
DestroyPrevious(h) ==
    IF h.inst.exists
    THEN [inst |-> [exists |-> TRUE, destroyCalls |-> h.inst.destroyCalls + 1],
          live |-> IF IsLive(h.inst) THEN h.live - 1 ELSE h.live]
    ELSE h

\* the handle and the count of live charts after the switch of lines 134-220,
\* which has no default case
ConstructChart(h, ct) ==
    IF ct \in ChartTypes THEN [inst |-> NewChart, live |-> h.live + 1] ELSE h

drawChart(d, ct) ==
    LET before == [inst |-> chartInstance, live |-> liveCharts]
    IN /\ chartInstance' = ConstructChart(DestroyPrevious(before), ct).inst
       /\ liveCharts' = ConstructChart(DestroyPrevious(before), ct).live
       /\ peakLive' = IF ct \in ChartTypes
                      THEN DestroyPrevious(before).live + 1
                      ELSE liveCharts
       /\ canvas' = IF ct \in ChartTypes THEN ChartConfig(d, ct) ELSE Blank

-----------------------------------------------------------------------------
(* populateDataTable, lines 224-251; populateCategoryFilter, lines 254-264 *)

populateDataTable(d) ==
    [i \in 1..Len(d) |->
        <<d[i].order_date, d[i].product_names, d[i].categories,
          100 * parseFloat(d[i].total)>>]

AllCategories == [text |-> "All Categories", value |-> "all"]

\* new Option(category, category): an undefined text and value read back as ""
OptionFor(category) ==
    IF category = Undefined THEN [text |-> "", value |-> ""]
    ELSE [text |-> category, value |-> category]

CategoryOptions(d) ==
    LET categories == Unique([i \in 1..Len(d) |-> d[i].categories])
    IN [i \in 1..Len(categories) |-> OptionFor(categories[i])]

\* populateCategoryFilter without line 256
populateCategoryFilterAppending(old, d) == old \o <<AllCategories>> \o CategoryOptions(d)

\* the control's options after the call, whatever it held before
populateCategoryFilter(old, d) == <<AllCategories>> \o CategoryOptions(d)

-----------------------------------------------------------------------------
(* filterAndRenderData, lines 78-97 *)

FilteredData(d, sd, ed, cat) ==
    SelectSeq(d, LAMBDA item :
        /\ ItemDate(item) >= sd
        /\ ItemDate(item) <= ed
        /\ (cat = "all" \/ item.categories = cat))

Call(fn, arg) == [fn |-> fn, arg |-> arg]

\* lines 94-96 with the table fed the unfiltered collection
RenderUnfilteredTable(d, filteredData, ct) ==
    /\ metrics' = updateKeyMetrics(filteredData)
    /\ drawChart(filteredData, ct)
    /\ tableRows' = populateDataTable(d)
    /\ calls' = <<Call("updateKeyMetrics", filteredData),
                  Call("drawChart", filteredData),
                  Call("populateDataTable", d)>>

\* lines 94-96: the three calls made with the subset filtered out of d
Render(d, filteredData, ct) ==
    /\ metrics' = updateKeyMetrics(filteredData)
    /\ drawChart(filteredData, ct)
    /\ tableRows' = populateDataTable(filteredData)
    /\ calls' = <<Call("updateKeyMetrics", filteredData),
                  Call("drawChart", filteredData),
                  Call("populateDataTable", filteredData)>>

\* a pass over collection d with the controls reading ct, sd, ed, cat
filterAndRenderData(d, ct, sd, ed, cat) ==
    Render(d, FilteredData(d, sd, ed, cat), ct)

\* line 79 throws when #chart-type-selector is missing: nothing is rendered
NoRender ==
    /\ calls' = <<>>
    /\ UNCHANGED <<metrics, chartInstance, liveCharts, peakLive, canvas, tableRows>>

\* destroy calls on one stale handle are counted up to MaxDestroyCalls
CanDraw(ct) ==
    \/ ct \in ChartTypes
    \/ ~chartInstance.exists
    \/ chartInstance.destroyCalls < MaxDestroyCalls

-----------------------------------------------------------------------------
(* setupFilters, lines 36-69 *)

ItemDates(d) == [i \in 1..Len(d) |-> ItemDate(d[i])]

\* defaultDate of the start picker, as the picker parses it
DefaultStart(d) == PickerDate(ToISODate(SeqMin(ItemDates(d))))

\* defaultDate of the end picker, as the picker parses it
DefaultEnd(d) == PickerDate(ToISODate(SeqMax(ItemDates(d))))

FilterHandlers == {"start-date", "end-date", "category-filter"}

-----------------------------------------------------------------------------
(* The DOMContentLoaded handler, lines 4-33 *)

NoDataMessage == "<p>No data available.</p>"
FetchFailedMessage == "<p>Failed to fetch data.</p>"

Init ==
    /\ tz \in TimeZones
    /\ dom \in DomFaults
    /\ chartType \in SelectorValues
    /\ phase = "loading"
    /\ fetchOutcome = "pending"
    /\ data = <<>>
    /\ appMessage = ""
    /\ uncaught = FALSE
    /\ handlers = {}
    /\ options = <<>>
    /\ selectedCategory = ""
    /\ startDate = 0
    /\ endDate = 0
    /\ chartInstance = NoChart
    /\ liveCharts = 0
    /\ peakLive = 0
    /\ canvas = Blank
    /\ metrics = [total_revenue |-> 0, total_orders |-> 0,
                  average_order_value |-> 0, top_category |-> ""]
    /\ tableRows = <<>>
    /\ calls = <<>>

\* fetch rejects, or response.json() rejects: the .catch of lines 25-32
FetchFailed(kind) ==
    /\ phase = "loading"
    /\ phase' = "failed"
    /\ fetchOutcome' = kind
    /\ appMessage' = FetchFailedMessage
    /\ UNCHANGED <<tz, dom, data, uncaught, handlers, options, selectedCategory,
                   startDate, endDate, chartType, chartInstance, liveCharts,
                   peakLive, canvas, metrics, tableRows, calls>>

\* lines 10-16: no data, or an empty array
FetchedNoData ==
    /\ phase = "loading"
    /\ phase' = "nodata"
    /\ fetchOutcome' = "ok"
    /\ appMessage' = NoDataMessage
    /\ UNCHANGED <<tz, dom, data, uncaught, handlers, options, selectedCategory,
                   startDate, endDate, chartType, chartInstance, liveCharts,
                   peakLive, canvas, metrics, tableRows, calls>>

\* lines 19-23 with every element and library present
Bootstrap(d) ==
    /\ phase' = "ready"
    /\ appMessage' = appMessage
    /\ startDate' = DefaultStart(d)
    /\ endDate' = DefaultEnd(d)
    /\ options' = populateCategoryFilter(options, d)
    /\ selectedCategory' = "all"
    /\ filterAndRenderData(d, chartType, DefaultStart(d), DefaultEnd(d), "all")
    /\ handlers' = FilterHandlers \cup {"chart-type-selector"}

\* flatpickr is not loaded: line 43 throws, and the .catch of lines 25-32 runs
BootstrapWithoutFlatpickr ==
    /\ phase' = "failed"
    /\ appMessage' = FetchFailedMessage
    /\ NoRender
    /\ UNCHANGED <<handlers, options, selectedCategory, startDate, endDate>>

\* #chart-type-selector is missing: setupFilters and populateCategoryFilter run,
\* line 79 throws in the first pass, and the .catch of lines 25-32 runs
BootstrapWithoutSelector(d) ==
    /\ phase' = "failed"
    /\ appMessage' = FetchFailedMessage
    /\ startDate' = DefaultStart(d)
    /\ endDate' = DefaultEnd(d)
    /\ handlers' = FilterHandlers
    /\ options' = populateCategoryFilter(options, d)
    /\ selectedCategory' = "all"
    /\ NoRender

FetchedData(d) ==
    /\ phase = "loading"
    /\ fetchOutcome' = "ok"
    /\ data' = d
    /\ CASE dom = "ok" -> Bootstrap(d)
         [] dom = "noFlatpickr" -> BootstrapWithoutFlatpickr
         [] dom = "noSelector" -> BootstrapWithoutSelector(d)
    /\ UNCHANGED <<tz, dom, uncaught, chartType>>

-----------------------------------------------------------------------------
(* The change handlers, lines 23, 48-50, 59-61, 67 *)

\* filterAndRenderData(data) called from a handler, the controls reading ct, sd, ed, cat
HandlerPass(ct, sd, ed, cat) ==
    /\ CanDraw(ct)
    /\ data' = data
    /\ IF dom = "noSelector"
       THEN NoRender /\ uncaught' = TRUE
       ELSE filterAndRenderData(data, ct, sd, ed, cat) /\ uncaught' = uncaught

ChangeStartDate(day) ==
    /\ "start-date" \in handlers
    /\ startDate' = PickerDate(day)
    /\ HandlerPass(chartType, PickerDate(day), endDate, selectedCategory)
    /\ UNCHANGED <<tz, dom, phase, fetchOutcome, appMessage, handlers, options,
                   selectedCategory, endDate, chartType>>

ChangeEndDate(day) ==
    /\ "end-date" \in handlers
    /\ endDate' = PickerDate(day)
    /\ HandlerPass(chartType, startDate, PickerDate(day), selectedCategory)
    /\ UNCHANGED <<tz, dom, phase, fetchOutcome, appMessage, handlers, options,
                   selectedCategory, startDate, chartType>>

ChangeCategory(value) ==
    /\ "category-filter" \in handlers
    /\ \E i \in 1..Len(options) : options[i].value = value
    /\ value # selectedCategory
    /\ selectedCategory' = value
    /\ HandlerPass(chartType, startDate, endDate, value)
    /\ UNCHANGED <<tz, dom, phase, fetchOutcome, appMessage, handlers, options,
                   startDate, endDate, chartType>>

ChangeChartType(ct) ==
    /\ "chart-type-selector" \in handlers
    /\ ct # chartType
    /\ chartType' = ct
    /\ HandlerPass(ct, startDate, endDate, selectedCategory)
    /\ UNCHANGED <<tz, dom, phase, fetchOutcome, appMessage, handlers, options,
                   selectedCategory, startDate, endDate>>

OptionValues == {"all", "", "A", "B"}

Next ==
    \/ \E kind \in {"transport", "parse"} : FetchFailed(kind)
    \/ FetchedNoData
    \/ \E d \in Collections : FetchedData(d)
    \/ \E day \in Dates : ChangeStartDate(ReverseJoin(day))
    \/ \E day \in Dates : ChangeEndDate(ReverseJoin(day))
    \/ \E value \in OptionValues : ChangeCategory(value)
    \/ \E ct \in SelectorValues : ChangeChartType(ct)

Spec == Init /\ [][Next]_vars

-----------------------------------------------------------------------------
(* drawChart's top-products case applied to a growing filtered set *)

ProductNames ==
    <<"P01", "P02", "P03", "P04", "P05", "P06", "P07", "P08", "P09", "P10",
      "P11", "P12", "P13", "P14">>

ProductsOf(d) == Unique([i \in 1..Len(d) |-> d[i].product_names])

\* the next order names a new product, or, as second order, the first product again
NextProducts(d) ==
    {ProductNames[Len(ProductsOf(d)) + 1]}
        \cup (IF Len(d) = 1 THEN {d[1].product_names} ELSE {})

InitTop ==
    /\ tz = 0
    /\ dom = "ok"
    /\ chartType = "topProducts"
    /\ phase = "ready"
    /\ fetchOutcome = "ok"
    /\ data = <<>>
    /\ appMessage = ""
    /\ uncaught = FALSE
    /\ handlers = {}
    /\ options = <<>>
    /\ selectedCategory = "all"
    /\ startDate = 0
    /\ endDate = 0
    /\ chartInstance = NoChart
    /\ liveCharts = 0
    /\ peakLive = 0
    /\ canvas = Blank
    /\ metrics = [total_revenue |-> 0, total_orders |-> 0,
                  average_order_value |-> 0, top_category |-> ""]
    /\ tableRows = <<>>
    /\ calls = <<>>

DrawTopProducts(p, t) ==
    /\ Len(data) < MaxOrders
    /\ Len(ProductsOf(data)) < Len(ProductNames)
    /\ data' = Append(data, [order_date |-> <<2, 1, 2024>>, product_names |-> p,
                             categories |-> "A", total |-> t])
    /\ drawChart(data', chartType)
    /\ calls' = <<Call("drawChart", data')>>
    /\ UNCHANGED <<tz, dom, phase, fetchOutcome, appMessage, uncaught, handlers,
                   options, selectedCategory, startDate, endDate, chartType,
                   metrics, tableRows>>

NextTop == \E p \in NextProducts(data), t \in Totals : DrawTopProducts(p, t)

SpecTop == InitTop /\ [][NextTop]_vars

-----------------------------------------------------------------------------
(* populateCategoryFilter applied again and again to one control *)

\* what the page's markup may have put into the control
MarkupOptions == {<<>>, <<AllCategories>>, <<AllCategories, OptionFor("A")>>}

InitPopulate ==
    /\ tz = 0
    /\ dom = "ok"
    /\ chartType = "revenueOverTime"
    /\ phase = "loading"
    /\ fetchOutcome = "ok"
    /\ data \in Collections
    /\ appMessage = ""
    /\ uncaught = FALSE
    /\ handlers = {}
    /\ options \in MarkupOptions
    /\ selectedCategory = (IF options = <<>> THEN "" ELSE options[1].value)
    /\ startDate = 0
    /\ endDate = 0
    /\ chartInstance = NoChart
    /\ liveCharts = 0
    /\ peakLive = 0
    /\ canvas = Blank
    /\ metrics = [total_revenue |-> 0, total_orders |-> 0,
                  average_order_value |-> 0, top_category |-> ""]
    /\ tableRows = <<>>
    /\ calls = <<>>

Populate ==
    /\ Len(calls) < MaxPopulate
    /\ options' = populateCategoryFilter(options, data)
    /\ selectedCategory' = "all"
    /\ calls' = Append(calls, Call("populateCategoryFilter", data))
    /\ UNCHANGED <<tz, dom, phase, fetchOutcome, data, appMessage, uncaught,
                   handlers, startDate, endDate, chartType, chartInstance,
                   liveCharts, peakLive, canvas, metrics, tableRows>>

NextPopulate == Populate

SpecPopulate == InitPopulate /\ [][NextPopulate]_vars

-----------------------------------------------------------------------------
(* Properties *)

Rendered == phase = "ready" /\ Len(calls) = 3
Shown == calls[1].arg

CategoryMatches(item) ==
    selectedCategory = "all" \/ item.categories = selectedCategory

\* C1: the filtered subset holds exactly the records whose order day lies in
\* [start day, end day], both days included, and whose category passes the
\* category filter, in the collection's order.
C1_FilterByCalendarDay ==
    Rendered =>
        Shown = SelectSeq(data, LAMBDA item :
                    /\ PickerDay(startDate) <= CalendarDay(item.order_date)
                    /\ CalendarDay(item.order_date) <= PickerDay(endDate)
                    /\ CategoryMatches(item))

\* C2: a chart is never constructed while another is alive, so at most one
\* chart is alive at any time, and after a pass in one of the three chart
\* modes exactly one is, the one the handle holds.
C2_OneLiveChart ==
    /\ liveCharts <= 1
    /\ peakLive <= 1
    /\ (Rendered /\ chartType \in ChartTypes =>
            liveCharts = 1 /\ IsLive(chartInstance))

C2_Witness ==
    /\ Rendered
    /\ chartType \in ChartTypes
    /\ selectedCategory = "A"
    /\ liveCharts = 1

CategoryLabel(item) ==
    IF Falsy(item.categories) THEN "Uncategorized" ELSE item.categories

CategoryLabels(d) == {CategoryLabel(d[i]) : i \in 1..Len(d)}

CategoryRevenue(d, label) ==
    SumTotals(SelectSeq(d, LAMBDA item : CategoryLabel(item) = label))

FirstSeen(d, label) ==
    CHOOSE i \in 1..Len(d) :
        /\ CategoryLabel(d[i]) = label
        /\ \A j \in 1..(i - 1) : CategoryLabel(d[j]) # label

MaxRevenueLabels(d) ==
    {l \in CategoryLabels(d) :
        \A m \in CategoryLabels(d) : CategoryRevenue(d, m) <= CategoryRevenue(d, l)}

EarliestOf(d, labels) ==
    CHOOSE l \in labels : \A m \in labels : FirstSeen(d, l) <= FirstSeen(d, m)

LatestOf(d, labels) ==
    CHOOSE l \in labels : \A m \in labels : FirstSeen(d, m) <= FirstSeen(d, l)

\* C3 as stated: the top category is "None" for no records, and otherwise the
\* category of greatest summed revenue, the first-encountered one on a tie.
C3_TopCategoryFirstOnTie ==
    Rendered =>
        metrics.top_category =
            IF Shown = <<>> THEN "None"
            ELSE EarliestOf(Shown, MaxRevenueLabels(Shown))

\* C3 as amended: the top category is "None" for no records, and otherwise the
\* category of greatest summed revenue, the last-encountered one on a tie.
C3_TopCategoryLastOnTie ==
    Rendered =>
        metrics.top_category =
            IF Shown = <<>> THEN "None"
            ELSE LatestOf(Shown, MaxRevenueLabels(Shown))

C3_Witness ==
    /\ Rendered
    /\ Cardinality(MaxRevenueLabels(Shown)) = 2
    /\ metrics.top_category = LatestOf(Shown, MaxRevenueLabels(Shown))

\* C4: the fetch-failure message is shown only when the fetch or its JSON parse
\* failed; a fault after a successful fetch is left uncaught.
C4_FailureMessageMeansFetchFailed ==
    /\ (appMessage = FetchFailedMessage => fetchOutcome \in {"transport", "parse"})
    /\ (fetchOutcome = "ok" /\ phase = "failed" => uncaught)

\* C5: after every filter change the metrics, the chart and the table have been
\* updated by one pass, in that order, each from the same subset filtered out of
\* the full collection under the controls' current values.
C5_FullPassOnEveryChange ==
    phase = "ready" =>
        LET filteredData ==
                FilteredData(data, startDate, endDate, selectedCategory)
        IN /\ calls = <<Call("updateKeyMetrics", filteredData),
                        Call("drawChart", filteredData),
                        Call("populateDataTable", filteredData)>>
           /\ metrics = updateKeyMetrics(filteredData)
           /\ canvas = (IF chartType \in ChartTypes
                       THEN ChartConfig(filteredData, chartType) ELSE Blank)
           /\ tableRows = populateDataTable(filteredData)

C5_Witness ==
    /\ Rendered
    /\ selectedCategory = "B"
    /\ Len(data) = 2
    /\ Len(Shown) = 1
    /\ Len(tableRows) = 1

ProductKey(item) ==
    IF Falsy(item.product_names) THEN "Unknown Product" ELSE item.product_names

ProductKeys(d) == {ProductKey(d[i]) : i \in 1..Len(d)}

ProductSum(d, key) == SumTotals(SelectSeq(d, LAMBDA item : ProductKey(item) = key))

\* C6: the top-products series gives each listed product the revenue summed over
\* all its orders, is sorted by descending revenue, lists no product twice, has
\* min(10, number of products) entries, and leaves out only products that earn
\* no more than every listed one.
C6_TopProducts ==
    canvas.type = "bar" =>
        LET labels == canvas.labels
            n == Len(labels)
            listed == {labels[i] : i \in 1..n}
        IN /\ n = Len(canvas.data)
           /\ n <= 10
           /\ n = (IF Cardinality(ProductKeys(data)) < 10
                   THEN Cardinality(ProductKeys(data)) ELSE 10)
           /\ listed \subseteq ProductKeys(data)
           /\ Cardinality(listed) = n
           /\ \A i \in 1..n : canvas.data[i] = ProductSum(data, labels[i])
           /\ \A i \in 1..(n - 1) : canvas.data[i] >= canvas.data[i + 1]
           /\ \A key \in ProductKeys(data) \ listed :
                  \A i \in 1..n : ProductSum(data, key) <= canvas.data[i]

C6_Witness ==
    /\ canvas.type = "bar"
    /\ Cardinality(ProductKeys(data)) > 10
    /\ Len(canvas.labels) = 10
    /\ canvas.labels[1] = "P01"
    /\ canvas.data[1] = 100
    /\ canvas.data[10] = 70

FirstWith(d, category) ==
    CHOOSE i \in 1..Len(d) :
        /\ d[i].categories = category
        /\ \A j \in 1..(i - 1) : d[j].categories # category

\* C7: after any number of invocations (one or more) the control holds the
\* "All Categories" entry, selected, followed by exactly one entry per distinct
\* category in first-seen order, and nothing else.
C7_PopulateIdempotent ==
    Len(calls) >= 1 =>
        LET seen == {data[i].categories : i \in 1..Len(data)}
            n == Len(options)
        IN /\ n = 1 + Cardinality(seen)
           /\ options[1] = AllCategories
           /\ selectedCategory = "all"
           /\ \A k \in 2..n : options[k].value # "all"
           /\ \A c \in seen :
                  Cardinality({k \in 2..n : options[k] = OptionFor(c)}) = 1
           /\ \A c1 \in seen, c2 \in seen, k1 \in 2..n, k2 \in 2..n :
                  /\ options[k1] = OptionFor(c1)
                  /\ options[k2] = OptionFor(c2)
                  /\ FirstWith(data, c1) < FirstWith(data, c2)
                  => k1 < k2

C7_Witness ==
    /\ Len(calls) = 2
    /\ Len(options) = 3
    /\ options[2].value = "B"

ChartMapping == {<<canvas.labels[i], canvas.data[i]>> : i \in 1..Len(canvas.labels)}

MetricsMapping(d) ==
    LET obj == MetricsRevenueByCategory(d)
    IN {<<obj[i].key, obj[i].value>> : i \in 1..Len(obj)}

\* C8: the category totals the revenue-by-category chart draws are the totals
\* the metrics pick the top category from, and the top category is one of the
\* chart's labels when records are shown.
C8_ChartAndMetricsAgree ==
    Rendered /\ chartType = "revenueByCategory" =>
        /\ ChartMapping = MetricsMapping(Shown)
        /\ (Shown # <<>> =>
                \E i \in 1..Len(canvas.labels) :
                    canvas.labels[i] = metrics.top_category)

InitialFilterState ==
    /\ Rendered
    /\ startDate = DefaultStart(data)
    /\ endDate = DefaultEnd(data)
    /\ selectedCategory = "all"

\* C9: under the initial filter state the pickers show the earliest and the
\* latest order day of the collection, and the pass shows the whole collection.
C9_InitialRenderShowsAll ==
    InitialFilterState =>
        /\ \A i \in 1..Len(data) :
               /\ PickerDay(startDate) <= CalendarDay(data[i].order_date)
               /\ CalendarDay(data[i].order_date) <= PickerDay(endDate)
        /\ \E i \in 1..Len(data) : PickerDay(startDate) = CalendarDay(data[i].order_date)
        /\ \E i \in 1..Len(data) : PickerDay(endDate) = CalendarDay(data[i].order_date)
        /\ Shown = data

\* C10: a handle that is not null holds a live chart, and no chart is destroyed
\* more than once.
C10_HandleIsLive ==
    chartInstance.exists => chartInstance.destroyCalls = 0

====
